---- MODULE Spec2Model ----
(***************************************************************************)
(* A model of the NoSQL Schema Generator front end (App.tsx and the        *)
(* generation client): the schema normalizer, the variant grouper of the   *)
(* robustness test, and the UI state machine around the generation calls.  *)
(*                                                                         *)
(* JavaScript strings that the code transforms (names, types, the          *)
(* requirements text) are sequences of one-character strings; strings the  *)
(* code only passes along (descriptions, messages) are TLA+ strings.       *)
(***************************************************************************)
EXTENDS Integers, Sequences, FiniteSets, TLC

(***************************************************************************)
(* Bounds of the model.                                                    *)
(***************************************************************************)
\* fields and collections that the rewriting of a schema may list once more
MaxRepeats == 1
\* robustness tests that may be outstanding at once
MaxTests == 2
\* the longest text, highlight list and highlight string of the highlighter
MaxText == 3
MaxHighlights == 2
MaxPhrase == 2

(***************************************************************************)
(* JavaScript values and strings.                                          *)
(***************************************************************************)
\* a string value / a value that is not a string (undefined, null, a number)
StrVal(chars) == [kind |-> "string", chars |-> chars]
NonString == [kind |-> "other", chars |-> <<>>]

\* String.prototype.trim: white space is stripped from both ends
IsSpace(c) == c = " "

RECURSIVE TrimStart(_)
TrimStart(s) ==
  IF s # <<>> /\ IsSpace(Head(s)) THEN TrimStart(Tail(s)) ELSE s

RECURSIVE TrimEnd(_)
TrimEnd(s) ==
  IF s # <<>> /\ IsSpace(s[Len(s)]) THEN TrimEnd(SubSeq(s, 1, Len(s) - 1)) ELSE s

Trim(s) == TrimEnd(TrimStart(s))

\* the collation order of the characters the model uses (white space, then
\* punctuation, then letters alphabetically)
CollationOrder == <<" ", "\"", "a", "b", "N", "S">>

Rank(c) == CHOOSE i \in 1..Len(CollationOrder) : CollationOrder[i] = c

\* String.prototype.localeCompare on these characters: negative, zero, positive
RECURSIVE localeCompare(_, _)
localeCompare(a, b) ==
  IF a = <<>> /\ b = <<>> THEN 0
  ELSE IF a = <<>> THEN -1
  ELSE IF b = <<>> THEN 1
  ELSE IF Rank(Head(a)) < Rank(Head(b)) THEN -1
  ELSE IF Rank(Head(a)) > Rank(Head(b)) THEN 1
  ELSE localeCompare(Tail(a), Tail(b))

\* the text of a character sequence
RECURSIVE Text(_)
Text(s) == IF s = <<>> THEN "" ELSE Head(s) \o Text(Tail(s))

(***************************************************************************)
(* normalizeSchema (App.tsx 78-101) and JSON.stringify of its result.      *)
(* An object is the sequence of its <<key, value>> entries in creation     *)
(* order, which is the order JSON.stringify writes them in.                *)
(***************************************************************************)
safeString(s) == IF s.kind = "string" /\ s.chars # <<>> THEN Trim(s.chars) ELSE <<>>

EntryOf(obj, key) == (CHOOSE i \in 1..Len(obj) : obj[i][1] = key)
Get(obj, key) == obj[EntryOf(obj, key)][2]
Keys(obj) == [i \in 1..Len(obj) |-> obj[i][1]]

\* Array.prototype.sort with the comparator (a, b) => a.name.localeCompare(b.name):
\* a stable sort, so entries that compare equal keep their input order
RECURSIVE InsertByName(_, _)
InsertByName(sorted, x) ==
  IF sorted = <<>> THEN <<x>>
  ELSE IF localeCompare(Get(sorted[Len(sorted)], "name"), Get(x, "name")) <= 0
       THEN Append(sorted, x)
       ELSE Append(InsertByName(SubSeq(sorted, 1, Len(sorted) - 1), x), sorted[Len(sorted)])

RECURSIVE SortByName(_)
SortByName(s) ==
  IF s = <<>> THEN <<>>
  ELSE InsertByName(SortByName(SubSeq(s, 1, Len(s) - 1)), s[Len(s)])

\* a normalizer that copies the description into the normalized field
NormalizeFieldWithProse(field) ==
  << <<"name", safeString(field.name)>>, <<"type", safeString(field.type)>>,
     <<"description", <<field.description>> >> >>

NormalizeField(field) ==
  << <<"name", safeString(field.name)>>, <<"type", safeString(field.type)>> >>

\* collection.fields || []
FieldsOf(collection) == IF collection.fields.present THEN collection.fields.items ELSE <<>>

NormalizeCollection(collection) ==
  LET normalizedFields == [i \in 1..Len(FieldsOf(collection)) |->
                             NormalizeField(FieldsOf(collection)[i])]
  IN << <<"name", safeString(collection.name)>>,
        <<"fields", SortByName(normalizedFields)>> >>

\* schema.collections || []
CollectionsOf(schema) == IF schema.collections.present THEN schema.collections.items ELSE <<>>

normalizeSchema(schema) ==
  LET normalizedCollections == [i \in 1..Len(CollectionsOf(schema)) |->
                                  NormalizeCollection(CollectionsOf(schema)[i])]
  IN << <<"collections", SortByName(normalizedCollections)>> >>

\* JSON.stringify of a string: quoted, with quotes and backslashes escaped
EscapeChar(c) == IF c = "\"" THEN "\\\"" ELSE IF c = "\\" THEN "\\\\" ELSE c

RECURSIVE Escaped(_)
Escaped(s) == IF s = <<>> THEN "" ELSE EscapeChar(Head(s)) \o Escaped(Tail(s))

StringifyString(s) == "\"" \o Escaped(s) \o "\""

RECURSIVE Join(_)
Join(parts) ==
  IF parts = <<>> THEN ""
  ELSE IF Len(parts) = 1 THEN parts[1]
  ELSE parts[1] \o "," \o Join(Tail(parts))

\* an object whose values are all strings
StringifyFlat(obj) ==
  "{" \o Join([i \in 1..Len(obj) |->
                 "\"" \o obj[i][1] \o "\":" \o StringifyString(obj[i][2])]) \o "}"

StringifyFields(fields) ==
  "[" \o Join([i \in 1..Len(fields) |-> StringifyFlat(fields[i])]) \o "]"

StringifyCollection(obj) ==
  "{" \o Join([i \in 1..Len(obj) |->
                 "\"" \o obj[i][1] \o "\":" \o
                 (IF obj[i][1] = "fields" THEN StringifyFields(obj[i][2])
                                          ELSE StringifyString(obj[i][2]))]) \o "}"

StringifyCollections(collections) ==
  "[" \o Join([i \in 1..Len(collections) |-> StringifyCollection(collections[i])]) \o "]"

\* JSON.stringify(normalizeSchema(...)) (App.tsx 124)
Stringify(normalized) ==
  "{\"collections\":" \o StringifyCollections(Get(normalized, "collections")) \o "}"

NormalizedString(schema) == Stringify(normalizeSchema(schema))

(***************************************************************************)
(* Values of the data model (types.ts).                                    *)
(***************************************************************************)
\* null / undefined where an object is expected
Null == [null |-> TRUE]
\* null where a string is expected (error, robustnessError)
NullString == "<null>"
\* null where a number is expected (robustnessScore)
NullScore == -1

Present(items) == [present |-> TRUE, items |-> items]
Missing == [present |-> FALSE, items |-> <<>>]

\* the quotes of the requirements that go with a description
QuotesFor(description) == IF description = "d1" THEN <<"q1">> ELSE <<"q1", "q2">>

MkField(name, type, description) ==
  [name |-> name, type |-> type, description |-> description,
   relevantRequirements |-> QuotesFor(description)]

MkCollection(name, fields, description) ==
  [name |-> name, description |-> description, fields |-> fields,
   relevantRequirements |-> QuotesFor(description)]

MkSchema(collections) == [collections |-> collections]

\* one structure, written in two ways (order, white space and prose differ)
SchemaUsers ==
  MkSchema(Present(<<
    MkCollection(StrVal(<<"a">>),
                 Present(<< MkField(StrVal(<<"a">>), StrVal(<<"S">>), "d1"),
                            MkField(StrVal(<<"b">>), StrVal(<<"N">>), "d1") >>), "d1") >>))

SchemaUsersReordered ==
  MkSchema(Present(<<
    MkCollection(StrVal(<<" ", "a">>),
                 Present(<< MkField(StrVal(<<"b", " ">>), StrVal(<<"N">>), "d2"),
                            MkField(StrVal(<<"a">>), StrVal(<<" ", "S">>), "d2") >>), "d2") >>))

\* the schema a single generation answers with in Spec
SchemaTags ==
  MkSchema(Present(<<
    MkCollection(StrVal(<<"b">>),
                 Present(<< MkField(StrVal(<<"a">>), StrVal(<<"S">>), "d1") >>), "d1") >>))

\* a different structure
SchemaPosts ==
  MkSchema(Present(<<
    MkCollection(StrVal(<<"b">>),
                 Present(<< MkField(StrVal(<<"a">>), StrVal(<<"S">>), "d1") >>), "d1"),
    MkCollection(StrVal(<<"a">>), Missing, "d1") >>))

(***************************************************************************)
(* The variant grouper and the score (App.tsx 112-156).                    *)
(***************************************************************************)
\* [0.5, 0.6, 0.7, 0.8, 0.9], in tenths
temperatures == <<5, 6, 7, 8, 9>>

\* !response || !response.schema
IsInvalid(response) == IF response = Null THEN TRUE ELSE response.schema = Null

HasKey(groups, key) == \E g \in 1..Len(groups) : groups[g].key = key
GroupAt(groups, key) == CHOOSE g \in 1..Len(groups) : groups[g].key = key

\* a forEach callback that also makes the latest response the representative
GroupStepKeepsLast(groups, response, index) ==
  IF IsInvalid(response) THEN groups
  ELSE LET normalizedString == NormalizedString(response.schema)
       IN IF HasKey(groups, normalizedString)
          THEN [groups EXCEPT ![GroupAt(groups, normalizedString)].temperatures =
                                 Append(@, temperatures[index]),
                              ![GroupAt(groups, normalizedString)].representative =
                                 response]
          ELSE Append(groups, [key |-> normalizedString,
                               representative |-> response,
                               temperatures |-> <<temperatures[index]>>])

\* one call of the forEach callback; groups is the Map, in insertion order
GroupStep(groups, response, index) ==
  IF IsInvalid(response) THEN groups
  ELSE LET normalizedString == NormalizedString(response.schema)
       IN IF HasKey(groups, normalizedString)
          THEN [groups EXCEPT ![GroupAt(groups, normalizedString)].temperatures =
                                 Append(@, temperatures[index])]
          ELSE Append(groups, [key |-> normalizedString,
                               representative |-> response,
                               temperatures |-> <<temperatures[index]>>])

\* responses.forEach(...), over the first n responses
RECURSIVE GroupResponses(_, _)
GroupResponses(responses, n) ==
  IF n = 0 THEN <<>>
  ELSE GroupStep(GroupResponses(responses, n - 1), responses[n], n)

\* a sort that puts an entry before the entries of equal count
RECURSIVE InsertBeforeEqualCount(_, _)
InsertBeforeEqualCount(sorted, x) ==
  IF sorted = <<>> THEN <<x>>
  ELSE IF x.count - sorted[Len(sorted)].count < 0
       THEN Append(sorted, x)
       ELSE Append(InsertBeforeEqualCount(SubSeq(sorted, 1, Len(sorted) - 1), x),
                   sorted[Len(sorted)])

\* Array.prototype.sort with (a, b) => b.count - a.count: stable, largest first
RECURSIVE InsertByCount(_, _)
InsertByCount(sorted, x) ==
  IF sorted = <<>> THEN <<x>>
  ELSE IF x.count - sorted[Len(sorted)].count <= 0
       THEN Append(sorted, x)
       ELSE Append(InsertByCount(SubSeq(sorted, 1, Len(sorted) - 1), x), sorted[Len(sorted)])

RECURSIVE SortByCount(_)
SortByCount(s) ==
  IF s = <<>> THEN <<>>
  ELSE InsertByCount(SortByCount(SubSeq(s, 1, Len(s) - 1)), s[Len(s)])

\* Array.from(groups.values()).map(group => ({...group, count})).sort(...)
FormatGroups(groups) ==
  SortByCount([g \in 1..Len(groups) |->
                 [representative |-> groups[g].representative,
                  temperatures |-> groups[g].temperatures,
                  count |-> Len(groups[g].temperatures)]])

FormattedGroups(responses) == FormatGroups(GroupResponses(responses, Len(responses)))

\* the count of the last group instead of the first
MaxCountOfLast(formattedGroups) ==
  IF Len(formattedGroups) > 0 THEN formattedGroups[Len(formattedGroups)].count ELSE 0

MaxCount(formattedGroups) == IF Len(formattedGroups) > 0 THEN formattedGroups[1].count ELSE 0

ScoreOf(maxCount) ==
  IF maxCount = 5 THEN 100
  ELSE IF maxCount = 4 THEN 75
  ELSE IF maxCount = 3 THEN 50
  ELSE IF maxCount = 2 THEN 25
  ELSE 0

(***************************************************************************)
(* The generation client (services/geminiService).                         *)
(* A response text is what the API sent back: JSON for a value, white      *)
(* space only, or something JSON.parse rejects.                            *)
(***************************************************************************)
TextOf(schema) == [kind |-> "json", value |-> [schema |-> schema, justification |-> "j"]]
TextNoSchema == [kind |-> "json", value |-> [schema |-> Null, justification |-> "j"]]
TextNull == [kind |-> "json", value |-> Null]
TextBlank == [kind |-> "blank", value |-> Null]
TextInvalid == [kind |-> "invalid", value |-> Null]

\* a parse that also throws on the JSON text null
ParseThrowsOnNull(text) == text.kind # "json" \/ text.value = Null

\* JSON.parse(response.text.trim())
ParseThrows(text) == text.kind # "json"
Parsed(text) == text.value

\* the state of one generateContent call
Pending == [state |-> "pending"]
Rejected == [state |-> "rejected"]
Fulfilled(text) == [state |-> "fulfilled", text |-> text]

\* the slot of Promise.all's result array that is not filled yet (undefined)
Unset == [kind |-> "unset", value |-> Null]

\* runRobustnessTest up to its await: the five calls are issued, one per
\* temperature, and Promise.all waits for them
IssueCalls(req) ==
  [requirements |-> req,
   calls |-> [i \in 1..Len(temperatures) |-> Pending],
   values |-> [i \in 1..Len(temperatures) |-> Unset],
   remaining |-> Len(temperatures),
   inOrder |-> TRUE]

\* a Promise.all that resolves when one promise is still pending
PromiseAllFulfilEarly(p, i, text) ==
  [p EXCEPT !.calls[i] = Fulfilled(text), !.values[i] = text,
            !.remaining = IF @ = 2 THEN 0 ELSE @ - 1,
            !.inOrder = @ /\ \A j \in 1..(i - 1) : p.calls[j] # Pending]

\* a Promise.all that collects the values in the order the promises fulfil in
PromiseAllFulfilInCompletionOrder(p, i, text) ==
  [p EXCEPT !.calls[i] = Fulfilled(text),
            !.values[Len(temperatures) - p.remaining + 1] = text,
            !.remaining = @ - 1,
            !.inOrder = @ /\ \A j \in 1..(i - 1) : p.calls[j] # Pending]

\* Promise.all when its i-th promise fulfils: the value goes to slot i.
\* inOrder records whether the calls have so far completed in the order they
\* were issued in.
PromiseAllFulfil(p, i, text) ==
  [p EXCEPT !.calls[i] = Fulfilled(text), !.values[i] = text, !.remaining = @ - 1,
            !.inOrder = @ /\ \A j \in 1..(i - 1) : p.calls[j] # Pending]

\* responses.map(...) of runRobustnessTest: the first text that does not parse throws
FirstThrow(values) == CHOOSE i \in 1..Len(values) :
                        /\ ParseThrows(values[i])
                        /\ \A j \in 1..(i - 1) : ~ParseThrows(values[j])
AnyThrow(values) == \E i \in 1..Len(values) : ParseThrows(values[i])
ParsedResponses(values) == [i \in 1..Len(values) |-> Parsed(values[i])]

RobustnessParseMessage(text) ==
  IF text.kind = "blank" THEN "Received an empty response from the API."
  ELSE "Unexpected token"

RobustnessFailure(message) == "Failed to run robustness test: " \o message
GenerationFailure(message) == "Failed to generate schema: " \o message

(***************************************************************************)
(* State.                                                                  *)
(***************************************************************************)
VARIABLES
  \* useState of App (App.tsx 18-30)
  requirements, generatedSchema, justification, isLoading, error, hoveredElement,
  isTestingRobustness, robustnessScore, robustnessError,
  robustnessComparisonGroups, isRobustnessModalOpen,
  \* handleGenerateSchema runs waiting for generateSchemaFromRequirements
  generations,
  \* handleRobustnessTest runs waiting for runRobustnessTest
  tests,
  \* the handleRobustnessTest run that finished last since the robustness
  \* results were last cleared: its calls as they stood when it finished, and
  \* the responses runRobustnessTest returned to it
  lastRun,
  \* the normalizer on its own: two schemas and their grouping keys
  schemaA, schemaB, keyA, keyB,
  \* RequirementHighlighter on its own: its props text and highlights, and
  \* the parts it renders
  props, parts

appVars == <<requirements, generatedSchema, justification, isLoading, error,
             hoveredElement, isTestingRobustness, robustnessScore, robustnessError,
             robustnessComparisonGroups, isRobustnessModalOpen, generations, tests,
             lastRun>>
normVars == <<schemaA, schemaB, keyA, keyB>>
viewVars == <<props, parts>>
vars == <<appVars, normVars, viewVars>>

\* the placeholder text, and a text of white space only
PlaceholderRequirements == <<"r">>
RequirementTexts == {<<"r">>, <<" ">>}

NoRun == [outcome |-> "none"]

AppInit ==
  /\ requirements = PlaceholderRequirements
  /\ generatedSchema = Null
  /\ justification = ""
  /\ isLoading = FALSE
  /\ error = NullString
  /\ hoveredElement = Null
  /\ isTestingRobustness = FALSE
  /\ robustnessScore = NullScore
  /\ robustnessError = NullString
  /\ robustnessComparisonGroups = <<>>
  /\ isRobustnessModalOpen = FALSE
  /\ generations = <<>>
  /\ tests = <<>>
  /\ lastRun = NoRun

NormIdle ==
  /\ schemaA = Null
  /\ schemaB = Null
  /\ keyA = ""
  /\ keyB = ""

ViewIdle ==
  /\ props = [text |-> <<>>, highlights |-> <<>>]
  /\ parts = <<>>

Init == AppInit /\ NormIdle /\ ViewIdle

Remove(s, k) == [i \in 1..(Len(s) - 1) |-> IF i < k THEN s[i] ELSE s[i + 1]]

(***************************************************************************)
(* Handlers of App.  A handler runs to its await in one step; what follows *)
(* the await runs, as one step, when the awaited promise settles.          *)
(***************************************************************************)
\* resetRobustnessState (App.tsx 33-39)
resetRobustnessState ==
  /\ isTestingRobustness' = FALSE
  /\ robustnessScore' = NullScore
  /\ robustnessError' = NullString
  /\ robustnessComparisonGroups' = <<>>
  /\ isRobustnessModalOpen' = FALSE
  /\ lastRun' = NoRun

\* the textarea's onChange (App.tsx 248-253); it is rendered while no schema is shown
SetRequirements(text) ==
  /\ generatedSchema = Null
  /\ requirements' = text
  /\ UNCHANGED <<generatedSchema, justification, isLoading, error, hoveredElement,
                 isTestingRobustness, robustnessScore, robustnessError,
                 robustnessComparisonGroups, isRobustnessModalOpen, generations,
                 tests, lastRun, normVars, viewVars>>

\* handleGenerateSchema up to its await (App.tsx 41-54); the button is rendered
\* while no schema is shown and disabled while isLoading (App.tsx 255-257)
GenerateSchema ==
  /\ generatedSchema = Null
  /\ ~isLoading
  /\ IF Trim(requirements) = <<>>
     THEN /\ error' = "Please provide your application requirements."
          /\ UNCHANGED <<requirements, generatedSchema, justification, isLoading,
                         hoveredElement, isTestingRobustness, robustnessScore,
                         robustnessError, robustnessComparisonGroups,
                         isRobustnessModalOpen, generations, tests, lastRun, normVars, viewVars>>
     ELSE /\ isLoading' = TRUE
          /\ error' = NullString
          /\ generatedSchema' = Null
          /\ justification' = ""
          /\ hoveredElement' = Null
          /\ resetRobustnessState
          /\ generations' = Append(generations, [requirements |-> requirements])
          /\ UNCHANGED <<requirements, tests, normVars, viewVars>>

\* generateSchemaFromRequirements fulfils or throws, and handleGenerateSchema
\* resumes (part_001 56-83, App.tsx 54-61)
GenerationFulfil(g, text) ==
  /\ g \in 1..Len(generations)
  /\ IF ParseThrows(text)
     THEN /\ error' = GenerationFailure(IF text.kind = "blank"
                                          THEN "Unexpected end of JSON input"
                                          ELSE "Unexpected token")
          /\ UNCHANGED <<generatedSchema, justification>>
     ELSE IF Parsed(text) = Null
     THEN /\ error' = "Cannot read properties of null (reading 'schema')"
          /\ UNCHANGED <<generatedSchema, justification>>
     ELSE /\ generatedSchema' = Parsed(text).schema
          /\ justification' = Parsed(text).justification
          /\ UNCHANGED error
  /\ isLoading' = FALSE
  /\ generations' = Remove(generations, g)
  /\ UNCHANGED <<requirements, hoveredElement, isTestingRobustness, robustnessScore,
                 robustnessError, robustnessComparisonGroups, isRobustnessModalOpen,
                 tests, lastRun, normVars, viewVars>>

GenerationReject(g) ==
  /\ g \in 1..Len(generations)
  /\ error' = GenerationFailure("fetch failed")
  /\ isLoading' = FALSE
  /\ generations' = Remove(generations, g)
  /\ UNCHANGED <<requirements, generatedSchema, justification, hoveredElement,
                 isTestingRobustness, robustnessScore, robustnessError,
                 robustnessComparisonGroups, isRobustnessModalOpen, tests, lastRun,
                 normVars, viewVars>>

\* handleEditRequirements (App.tsx 64-70); the button is rendered with the schema
EditRequirements ==
  /\ generatedSchema # Null
  /\ generatedSchema' = Null
  /\ justification' = ""
  /\ error' = NullString
  /\ hoveredElement' = Null
  /\ resetRobustnessState
  /\ UNCHANGED <<requirements, isLoading, generations, tests, normVars, viewVars>>

\* the elements SchemaDisplay reports to onHover (App.tsx 399-405, 445-449)
CollectionElement(collection) ==
  [id |-> "collection-" \o Text(collection.name.chars),
   description |-> collection.description,
   relevantRequirements |-> collection.relevantRequirements]

FieldElement(collection, field) ==
  [id |-> "field-" \o Text(collection.name.chars) \o "-" \o Text(field.name.chars),
   description |-> field.description,
   relevantRequirements |-> field.relevantRequirements]

HoverElements(schema) ==
  {CollectionElement(CollectionsOf(schema)[c]) : c \in 1..Len(CollectionsOf(schema))}
  \cup
  UNION {{FieldElement(CollectionsOf(schema)[c], FieldsOf(CollectionsOf(schema)[c])[f]) :
            f \in 1..Len(FieldsOf(CollectionsOf(schema)[c]))} :
         c \in 1..Len(CollectionsOf(schema))}

\* handleHover (App.tsx 164-166)
handleHover(element) ==
  /\ generatedSchema # Null
  /\ element \in HoverElements(generatedSchema) \cup {Null}
  /\ hoveredElement' = element
  /\ UNCHANGED <<requirements, generatedSchema, justification, isLoading, error,
                 isTestingRobustness, robustnessScore, robustnessError,
                 robustnessComparisonGroups, isRobustnessModalOpen, generations,
                 tests, lastRun, normVars, viewVars>>

\* the View Comparison button (App.tsx 193-200) and the modal's onClose (App.tsx 377-381)
OpenModal ==
  /\ generatedSchema # Null
  /\ robustnessScore # NullScore
  /\ Len(robustnessComparisonGroups) > 0
  /\ isRobustnessModalOpen' = TRUE
  /\ UNCHANGED <<requirements, generatedSchema, justification, isLoading, error,
                 hoveredElement, isTestingRobustness, robustnessScore, robustnessError,
                 robustnessComparisonGroups, generations, tests, lastRun, normVars, viewVars>>

CloseModal ==
  /\ isRobustnessModalOpen
  /\ isRobustnessModalOpen' = FALSE
  /\ UNCHANGED <<requirements, generatedSchema, justification, isLoading, error,
                 hoveredElement, isTestingRobustness, robustnessScore, robustnessError,
                 robustnessComparisonGroups, generations, tests, lastRun, normVars, viewVars>>

\* a handleRobustnessTest that keeps the error of the test before
RunKeepsError ==
  /\ generatedSchema # Null
  /\ ~isTestingRobustness
  /\ Len(tests) < MaxTests
  /\ isTestingRobustness' = TRUE
  /\ robustnessScore' = NullScore
  /\ robustnessComparisonGroups' = <<>>
  /\ lastRun' = NoRun
  /\ tests' = Append(tests, IssueCalls(requirements))
  /\ UNCHANGED <<requirements, generatedSchema, justification, isLoading, error,
                 hoveredElement, isRobustnessModalOpen, generations, robustnessError,
                 normVars, viewVars>>

\* handleRobustnessTest up to its await (App.tsx 104-111, part_001 86-107); the
\* button is rendered with the schema and disabled while isTestingRobustness
\* (App.tsx 284-288)
RunRobustnessTest ==
  /\ generatedSchema # Null
  /\ ~isTestingRobustness
  /\ Len(tests) < MaxTests
  /\ isTestingRobustness' = TRUE
  /\ robustnessScore' = NullScore
  /\ robustnessError' = NullString
  /\ robustnessComparisonGroups' = <<>>
  /\ lastRun' = NoRun
  /\ tests' = Append(tests, IssueCalls(requirements))
  /\ UNCHANGED <<requirements, generatedSchema, justification, isLoading, error,
                 hoveredElement, isRobustnessModalOpen, generations, normVars, viewVars>>

\* the catch and finally blocks of handleRobustnessTest (App.tsx 157-161)
TestFailed(t, p, message) ==
  /\ robustnessError' = message
  /\ isTestingRobustness' = FALSE
  /\ lastRun' = [outcome |-> "failed", calls |-> p.calls, inOrder |-> p.inOrder,
                 responses |-> <<>>]
  /\ tests' = Remove(tests, t)
  /\ UNCHANGED <<robustnessScore, robustnessComparisonGroups>>

\* the rest of the try block and the finally block (App.tsx 112-156, 159-161)
TestSucceeded(t, p, responses) ==
  /\ robustnessComparisonGroups' = FormattedGroups(responses)
  /\ robustnessScore' = ScoreOf(MaxCount(FormattedGroups(responses)))
  /\ isTestingRobustness' = FALSE
  /\ lastRun' = [outcome |-> "succeeded", calls |-> p.calls, inOrder |-> p.inOrder,
                 responses |-> responses]
  /\ tests' = Remove(tests, t)
  /\ UNCHANGED robustnessError

\* call i of test t fulfils.  With calls still pending Promise.all goes on
\* waiting; with none, runRobustnessTest parses the values in order and
\* handleRobustnessTest resumes (part_001 107-126)
CallFulfil(t, i, text) ==
  /\ t \in 1..Len(tests)
  /\ tests[t].calls[i] = Pending
  /\ LET p == PromiseAllFulfil(tests[t], i, text)
     IN IF p.remaining > 0
        THEN /\ tests' = [tests EXCEPT ![t] = p]
             /\ UNCHANGED <<isTestingRobustness, robustnessScore, robustnessError,
                            robustnessComparisonGroups, lastRun>>
        ELSE IF AnyThrow(p.values)
        THEN TestFailed(t, p,
               RobustnessFailure(RobustnessParseMessage(p.values[FirstThrow(p.values)])))
        ELSE TestSucceeded(t, p, ParsedResponses(p.values))
  /\ UNCHANGED <<requirements, generatedSchema, justification, isLoading, error,
                 hoveredElement, isRobustnessModalOpen, generations, normVars, viewVars>>

\* a catch block that reports the failure of the test in error
CallRejectSetsError(t, i) ==
  /\ t \in 1..Len(tests)
  /\ tests[t].calls[i] = Pending
  /\ error' = RobustnessFailure("fetch failed")
  /\ isTestingRobustness' = FALSE
  /\ lastRun' = [outcome |-> "failed",
                 calls |-> [tests[t] EXCEPT !.calls[i] = Rejected].calls,
                 inOrder |-> tests[t].inOrder, responses |-> <<>>]
  /\ tests' = Remove(tests, t)
  /\ UNCHANGED <<requirements, generatedSchema, justification, isLoading,
                 robustnessError, robustnessScore, robustnessComparisonGroups,
                 hoveredElement, isRobustnessModalOpen, generations, normVars, viewVars>>

\* call i of test t rejects: Promise.all rejects at once, whatever is pending
CallReject(t, i) ==
  /\ t \in 1..Len(tests)
  /\ tests[t].calls[i] = Pending
  /\ TestFailed(t, [tests[t] EXCEPT !.calls[i] = Rejected],
                RobustnessFailure("fetch failed"))
  /\ UNCHANGED <<requirements, generatedSchema, justification, isLoading, error,
                 hoveredElement, isRobustnessModalOpen, generations, normVars, viewVars>>

(***************************************************************************)
(* Spec: the application, from its first render, under every user action   *)
(* and every outcome of the generation calls.                              *)
(***************************************************************************)
\* what a single generation may answer / what a call of a robustness test may answer
GenerationTexts == {TextOf(SchemaTags), TextNoSchema, TextNull, TextBlank}
TestTexts == {TextOf(SchemaUsers)}

Next ==
  \/ \E text \in RequirementTexts : SetRequirements(text)
  \/ GenerateSchema
  \/ \E g \in 1..Len(generations), text \in GenerationTexts : GenerationFulfil(g, text)
  \/ \E g \in 1..Len(generations) : GenerationReject(g)
  \/ EditRequirements
  \/ \E element \in HoverElements(SchemaTags) \cup {Null} : handleHover(element)
  \/ OpenModal
  \/ CloseModal
  \/ RunRobustnessTest
  \/ \E t \in 1..Len(tests), i \in 1..Len(temperatures), text \in TestTexts :
       CallFulfil(t, i, text)
  \/ \E t \in 1..Len(tests), i \in 1..Len(temperatures) : CallReject(t, i)

Spec == Init /\ [][Next]_vars

(***************************************************************************)
(* GroupSpec: the robustness feature on its own.  A schema is on display   *)
(* and the user runs robustness tests and looks at their results; a call   *)
(* may answer with any of the response texts.                              *)
(***************************************************************************)
GroupTexts == {TextOf(SchemaUsers), TextOf(SchemaUsersReordered), TextOf(SchemaPosts),
               TextNoSchema, TextNull, TextBlank}

\* the state Spec is in after a first generation has answered SchemaTags
GroupInit ==
  /\ requirements = PlaceholderRequirements
  /\ generatedSchema = SchemaTags
  /\ justification = "j"
  /\ isLoading = FALSE
  /\ error = NullString
  /\ hoveredElement = Null
  /\ isTestingRobustness = FALSE
  /\ robustnessScore = NullScore
  /\ robustnessError = NullString
  /\ robustnessComparisonGroups = <<>>
  /\ isRobustnessModalOpen = FALSE
  /\ generations = <<>>
  /\ tests = <<>>
  /\ lastRun = NoRun
  /\ NormIdle
  /\ ViewIdle

GroupNext ==
  \/ RunRobustnessTest
  \/ \E t \in 1..Len(tests), i \in 1..Len(temperatures), text \in GroupTexts :
       CallFulfil(t, i, text)
  \/ \E t \in 1..Len(tests), i \in 1..Len(temperatures) : CallReject(t, i)
  \/ OpenModal
  \/ CloseModal

GroupSpec == GroupInit /\ [][GroupNext]_vars

(***************************************************************************)
(* NormSpec: normalizeSchema on its own.  A schema is drawn, a copy of it   *)
(* is rewritten step by step, and each step normalizes the copy again.     *)
(***************************************************************************)
\* two fields of one name and different types
SchemaSameNames ==
  MkSchema(Present(<<
    MkCollection(StrVal(<<"a">>),
                 Present(<< MkField(StrVal(<<"a">>), StrVal(<<"S">>), "d1"),
                            MkField(StrVal(<<"a", " ">>), StrVal(<<"N">>), "d1") >>), "d1") >>))

\* one field, and the same field listed twice
SchemaSingle ==
  MkSchema(Present(<<
    MkCollection(StrVal(<<"a">>),
                 Present(<< MkField(StrVal(<<"a">>), StrVal(<<"S">>), "d1") >>), "d1") >>))

\* two collections of one name
SchemaTwins ==
  MkSchema(Present(<<
    MkCollection(StrVal(<<"a">>),
                 Present(<< MkField(StrVal(<<"a">>), StrVal(<<"S">>), "d1") >>), "d1"),
    MkCollection(StrVal(<<"a">>),
                 Present(<< MkField(StrVal(<<"b">>), StrVal(<<"S">>), "d1") >>), "d2") >>))

\* names that are not strings, a quote in a name, a collection without fields
SchemaLoose ==
  MkSchema(Present(<<
    MkCollection(NonString,
                 Present(<< MkField(StrVal(<<"\"", "a">>), NonString, "d1") >>), "d1"),
    MkCollection(StrVal(<<"b">>), Missing, "d1") >>))

BaseSchemas == {SchemaUsers, SchemaUsersReordered, SchemaPosts, SchemaSameNames,
                SchemaSingle, SchemaTwins, SchemaLoose, MkSchema(Missing)}

NormInit ==
  /\ AppInit
  /\ ViewIdle
  /\ schemaA \in BaseSchemas
  /\ schemaB = schemaA
  /\ keyA = NormalizedString(schemaA)
  /\ keyB = NormalizedString(schemaB)

\* the number of collections and fields a schema lists
RECURSIVE FieldsListed(_, _)
FieldsListed(schema, n) ==
  IF n = 0 THEN 0
  ELSE FieldsListed(schema, n - 1) + Len(FieldsOf(CollectionsOf(schema)[n]))

Size(schema) == Len(CollectionsOf(schema)) + FieldsListed(schema, Len(CollectionsOf(schema)))

Swap(s, i) == [s EXCEPT ![i] = s[i + 1], ![i + 1] = s[i]]

Renormalize(schema) ==
  /\ schemaB' = schema
  /\ keyB' = NormalizedString(schema)
  /\ UNCHANGED <<schemaA, keyA, appVars, viewVars>>

\* two neighbouring collections change places
SwapCollections(i) ==
  /\ i \in 1..(Len(CollectionsOf(schemaB)) - 1)
  /\ Renormalize([schemaB EXCEPT !.collections.items = Swap(@, i)])

\* two neighbouring fields of collection c change places
SwapFields(c, i) ==
  /\ c \in 1..Len(CollectionsOf(schemaB))
  /\ i \in 1..(Len(FieldsOf(CollectionsOf(schemaB)[c])) - 1)
  /\ Renormalize([schemaB EXCEPT !.collections.items[c].fields.items = Swap(@, i)])

\* the prose of collection c (f = 0) or of its field f is rewritten
Redescribe(c, f, description) ==
  /\ c \in 1..Len(CollectionsOf(schemaB))
  /\ f \in 0..Len(FieldsOf(CollectionsOf(schemaB)[c]))
  /\ IF f = 0
     THEN Renormalize([schemaB EXCEPT
            !.collections.items[c].description = description,
            !.collections.items[c].relevantRequirements = QuotesFor(description)])
     ELSE Renormalize([schemaB EXCEPT
            !.collections.items[c].fields.items[f].description = description,
            !.collections.items[c].fields.items[f].relevantRequirements =
               QuotesFor(description)])

\* field f of collection c is listed once more
RepeatField(c, f) ==
  /\ c \in 1..Len(CollectionsOf(schemaB))
  /\ f \in 1..Len(FieldsOf(CollectionsOf(schemaB)[c]))
  /\ Size(schemaB) < Size(schemaA) + MaxRepeats
  /\ Renormalize([schemaB EXCEPT !.collections.items[c].fields.items =
                                    Append(@, @[f])])

\* collection c is listed once more
RepeatCollection(c) ==
  /\ c \in 1..Len(CollectionsOf(schemaB))
  /\ Size(schemaB) + Len(FieldsOf(CollectionsOf(schemaB)[c])) < Size(schemaA) + MaxRepeats
  /\ Renormalize([schemaB EXCEPT !.collections.items = Append(@, @[c])])

NormNext ==
  \/ \E i \in 1..Len(CollectionsOf(schemaB)) : SwapCollections(i)
  \/ \E c \in 1..Len(CollectionsOf(schemaB)) :
       \E i \in 1..Len(FieldsOf(CollectionsOf(schemaB)[c])) : SwapFields(c, i)
  \/ \E c \in 1..Len(CollectionsOf(schemaB)) :
       \E f \in 0..Len(FieldsOf(CollectionsOf(schemaB)[c])), d \in {"d1", "d2"} :
         Redescribe(c, f, d)
  \/ \E c \in 1..Len(CollectionsOf(schemaB)) :
       \E f \in 1..Len(FieldsOf(CollectionsOf(schemaB)[c])) : RepeatField(c, f)
  \/ \E c \in 1..Len(CollectionsOf(schemaB)) : RepeatCollection(c)

NormSpec == NormInit /\ [][NormNext]_vars

(***************************************************************************)
(* Properties of the normalizer, checked under NormSpec.                   *)
(***************************************************************************)
\* t lists the elements of s in some order
IsReordering(s, t) ==
  /\ Len(s) = Len(t)
  /\ \E p \in Permutations(1..Len(s)) : \A i \in 1..Len(s) : t[i] = s[p[i]]

\* collection d is collection c with its fields in some order
FieldsReordered(c, d) ==
  /\ c.name = d.name
  /\ c.description = d.description
  /\ c.relevantRequirements = d.relevantRequirements
  /\ c.fields.present = d.fields.present
  /\ IsReordering(FieldsOf(c), FieldsOf(d))

\* schema t is schema s with its collections, and the fields of each, in some order
IsPermutationOf(s, t) ==
  /\ s.collections.present = t.collections.present
  /\ Len(CollectionsOf(s)) = Len(CollectionsOf(t))
  /\ \E p \in Permutations(1..Len(CollectionsOf(s))) :
       \A i \in 1..Len(CollectionsOf(s)) :
         FieldsReordered(CollectionsOf(s)[p[i]], CollectionsOf(t)[i])

\* C1: normalizeSchema is order-independent: a schema and any permutation of
\* its collections and of the fields of its collections serialize to the same
\* normalized text, also when names repeat.
C1_OrderIndependent == IsPermutationOf(schemaA, schemaB) => keyA = keyB

\* the trimmed collection names of a schema, and the (name, type) pairs under a name
CollectionNames(s) ==
  {safeString(CollectionsOf(s)[c].name) : c \in 1..Len(CollectionsOf(s))}

FieldPairs(s, name) ==
  UNION {{<<safeString(FieldsOf(CollectionsOf(s)[c])[f].name),
            safeString(FieldsOf(CollectionsOf(s)[c])[f].type)>> :
            f \in 1..Len(FieldsOf(CollectionsOf(s)[c]))} :
         c \in {k \in 1..Len(CollectionsOf(s)) : safeString(CollectionsOf(s)[k].name) = name}}

SameSets(s, t) ==
  /\ CollectionNames(s) = CollectionNames(t)
  /\ \A name \in CollectionNames(s) : FieldPairs(s, name) = FieldPairs(t, name)

\* C2: two schemas get the same grouping key if and only if they have the same
\* set of trimmed collection names and, under each name, the same set of
\* (trimmed field name, trimmed field type) pairs.
C2_SameKeyIffSameSets == SameSets(schemaA, schemaB) <=> keyA = keyB

\* the two schemas list the same names and types in the same order
SameNamesAndTypes(s, t) ==
  /\ s.collections.present = t.collections.present
  /\ Len(CollectionsOf(s)) = Len(CollectionsOf(t))
  /\ \A c \in 1..Len(CollectionsOf(s)) :
       LET x == CollectionsOf(s)[c]
           y == CollectionsOf(t)[c]
       IN /\ x.name = y.name
          /\ x.fields.present = y.fields.present
          /\ Len(FieldsOf(x)) = Len(FieldsOf(y))
          /\ \A f \in 1..Len(FieldsOf(x)) :
               /\ FieldsOf(x)[f].name = FieldsOf(y)[f].name
               /\ FieldsOf(x)[f].type = FieldsOf(y)[f].type

\* the normalized value has name and fields per collection, name and type per field
NoProseEntries(normalized) ==
  /\ Keys(normalized) = <<"collections">>
  /\ \A c \in 1..Len(Get(normalized, "collections")) :
       LET collection == Get(normalized, "collections")[c]
       IN /\ Keys(collection) = <<"name", "fields">>
          /\ \A f \in 1..Len(Get(collection, "fields")) :
               Keys(Get(collection, "fields")[f]) = <<"name", "type">>

\* C3: schemas that differ only in description and relevantRequirements
\* serialize to the same normalized text, and the normalized value has no
\* description or relevantRequirements entry.
C3_IgnoresProse ==
  SameNamesAndTypes(schemaA, schemaB) =>
    /\ keyA = keyB
    /\ NoProseEntries(normalizeSchema(schemaA))
    /\ NoProseEntries(normalizeSchema(schemaB))

\* a field of the rewritten schema has another description and other quotes
C3_Witness ==
  /\ SameNamesAndTypes(schemaA, schemaB)
  /\ \E c \in 1..Len(CollectionsOf(schemaA)) :
       /\ CollectionsOf(schemaA)[c].description # CollectionsOf(schemaB)[c].description
       /\ \E f \in 1..Len(FieldsOf(CollectionsOf(schemaA)[c])) :
            /\ FieldsOf(CollectionsOf(schemaA)[c])[f].description #
                 FieldsOf(CollectionsOf(schemaB)[c])[f].description
            /\ FieldsOf(CollectionsOf(schemaA)[c])[f].relevantRequirements #
                 FieldsOf(CollectionsOf(schemaB)[c])[f].relevantRequirements

(***************************************************************************)
(* Properties of the variant grouper, checked under GroupSpec.  They are   *)
(* stated of the run that finished last and of the groups it stored.       *)
(***************************************************************************)
Succeeded == lastRun.outcome = "succeeded"

Indexes == 1..Len(temperatures)

\* the responses of the run with a schema, and their keys
ValidIndexes == {i \in Indexes : ~IsInvalid(lastRun.responses[i])}
KeyAt(i) == NormalizedString(lastRun.responses[i].schema)

Elements(seq) == {seq[k] : k \in 1..Len(seq)}

\* the temperatures of the responses with the key, in input order
RECURSIVE TemperaturesOf(_, _)
TemperaturesOf(key, n) ==
  IF n = 0 THEN <<>>
  ELSE IF n \in ValidIndexes /\ KeyAt(n) = key
       THEN Append(TemperaturesOf(key, n - 1), temperatures[n])
       ELSE TemperaturesOf(key, n - 1)

RECURSIVE SumOfCounts(_, _)
SumOfCounts(groups, n) ==
  IF n = 0 THEN 0 ELSE SumOfCounts(groups, n - 1) + groups[n].count

\* C4: every response with a schema has its temperature in exactly one group,
\* the group of its key; the representative of a group is the lowest-index
\* response with the key; the temperatures of a group are those of its members
\* in input order, none twice; count is their number, and the counts add up to
\* the number of responses with a schema.
C4_GroupsPartitionResponses ==
  Succeeded =>
    LET groups == robustnessComparisonGroups
        GroupKey(g) == NormalizedString(groups[g].representative.schema)
    IN /\ \A i \in ValidIndexes :
            /\ Cardinality({g \in 1..Len(groups) :
                              temperatures[i] \in Elements(groups[g].temperatures)}) = 1
            /\ \A g \in 1..Len(groups) :
                 temperatures[i] \in Elements(groups[g].temperatures) <=> GroupKey(g) = KeyAt(i)
       /\ \A g \in 1..Len(groups) :
            LET members == {i \in ValidIndexes : KeyAt(i) = GroupKey(g)}
            IN /\ members # {}
               /\ groups[g].representative =
                    lastRun.responses[CHOOSE i \in members : \A j \in members : i <= j]
               /\ groups[g].temperatures = TemperaturesOf(GroupKey(g), Len(temperatures))
               /\ Cardinality(Elements(groups[g].temperatures)) = Len(groups[g].temperatures)
               /\ groups[g].count = Len(groups[g].temperatures)
       /\ SumOfCounts(groups, Len(groups)) = Cardinality(ValidIndexes)

\* two groups, one of them of two responses written differently, and a response skipped
C4_Witness ==
  /\ Succeeded
  /\ Len(robustnessComparisonGroups) = 2
  /\ Cardinality(ValidIndexes) = 4
  /\ \E i, j \in ValidIndexes :
       /\ i < j
       /\ KeyAt(i) = KeyAt(j)
       /\ lastRun.responses[i] # lastRun.responses[j]

\* C5: the stored groups are ordered by count, largest first, and of two
\* groups of equal count the one first seen at the lower temperature is first.
C5_LargestFirstThenFirstSeen ==
  Succeeded =>
    \A g, h \in 1..Len(robustnessComparisonGroups) :
      g < h =>
        LET a == robustnessComparisonGroups[g]
            b == robustnessComparisonGroups[h]
        IN \/ a.count > b.count
           \/ a.count = b.count /\ a.temperatures[1] < b.temperatures[1]

\* one response skipped and two groups of two
C5_Witness ==
  /\ Succeeded
  /\ Cardinality(ValidIndexes) = 4
  /\ Len(robustnessComparisonGroups) = 2
  /\ robustnessComparisonGroups[1].count = 2
  /\ robustnessComparisonGroups[2].count = 2

\* the largest count of all groups, 0 without groups
LargestCount(groups) ==
  IF groups = <<>> THEN 0
  ELSE CHOOSE m \in {groups[g].count : g \in 1..Len(groups)} :
         \A g \in 1..Len(groups) : groups[g].count <= m

AllSameKey(indexes) ==
  /\ indexes \subseteq ValidIndexes
  /\ \A i, j \in indexes : KeyAt(i) = KeyAt(j)

\* C6: after a test that succeeded the score is 100, 75, 50, 25 for a largest
\* count of 5, 4, 3, 2 and 0 otherwise; five identical structures give one
\* group of 5 and score 100; one structure at 0.5, 0.7, 0.9 and another at
\* 0.6, 0.8 give two groups of 3 then 2 and score 50.
C6_ScoreFromLargestCount ==
  Succeeded =>
    LET groups == robustnessComparisonGroups
        m == LargestCount(groups)
    IN /\ robustnessScore \in {0, 25, 50, 75, 100}
       /\ m = 5 => robustnessScore = 100
       /\ m = 4 => robustnessScore = 75
       /\ m = 3 => robustnessScore = 50
       /\ m = 2 => robustnessScore = 25
       /\ m <= 1 => robustnessScore = 0
       /\ AllSameKey(Indexes) =>
            Len(groups) = 1 /\ groups[1].count = 5 /\ robustnessScore = 100
       /\ (AllSameKey({1, 3, 5}) /\ AllSameKey({2, 4}) /\ KeyAt(1) # KeyAt(2)) =>
            /\ Len(groups) = 2
            /\ groups[1].count = 3 /\ groups[1].temperatures = <<5, 7, 9>>
            /\ groups[2].count = 2 /\ groups[2].temperatures = <<6, 8>>
            /\ robustnessScore = 50

\* the structure at 0.5 is the one of three, seen again at 0.7 and 0.9
C6_Witness ==
  /\ Succeeded
  /\ AllSameKey({1, 3, 5}) /\ AllSameKey({2, 4}) /\ KeyAt(1) # KeyAt(2)
  /\ robustnessScore = 50

\* the temperatures of the responses the grouping skipped
SkippedTemperatures == {temperatures[i] : i \in Indexes \ ValidIndexes}

C8_LeavesRunningWhenAllSettled ==
  (~isTestingRobustness /\ (robustnessScore # NullScore \/ robustnessError # NullString)) =>
    /\ lastRun.outcome # "none"
    /\ \A i \in Indexes : lastRun.calls[i] # Pending

\* C8 as amended: the test leaves Running for Succeeded only when all five
\* calls have fulfilled; it leaves Running for Failed at the first call that
\* rejects, whatever is still pending, or when all five have fulfilled and a
\* text does not parse.
C8_SucceedsWhenAllFulfilled ==
  /\ Succeeded =>
       /\ ~isTestingRobustness
       /\ robustnessScore # NullScore
       /\ \A i \in Indexes : lastRun.calls[i].state = "fulfilled"
  /\ lastRun.outcome = "failed" =>
       /\ ~isTestingRobustness
       /\ robustnessError # NullString
       /\ \/ Cardinality({i \in Indexes : lastRun.calls[i] = Rejected}) = 1
          \/ /\ \A i \in Indexes : lastRun.calls[i].state = "fulfilled"
             /\ \E i \in Indexes : lastRun.calls[i].text.kind # "json"

\* a test that failed on a rejected call while calls were pending
C8_Witness ==
  /\ lastRun.outcome = "failed"
  /\ ~isTestingRobustness
  /\ robustnessError # NullString
  /\ \E i, j \in Indexes : lastRun.calls[i] = Rejected /\ lastRun.calls[j] = Pending

\* C9: response i is the one of the call issued with temperatures[i], in
\* whatever order the calls completed, so the groups and the score are those
\* of the five results taken in the order of issue.
C9_ResponsesFollowIssueOrder ==
  /\ \A t \in 1..Len(tests) : \A i \in Indexes :
       tests[t].values[i] =
         IF tests[t].calls[i] = Pending THEN Unset ELSE tests[t].calls[i].text
  /\ Succeeded =>
       LET issued == [i \in Indexes |-> lastRun.calls[i].text.value]
       IN /\ lastRun.responses = issued
          /\ robustnessComparisonGroups = FormattedGroups(issued)
          /\ robustnessScore = ScoreOf(MaxCount(FormattedGroups(issued)))
          /\ \A g \in 1..Len(robustnessComparisonGroups) :
               \A k \in 1..Len(robustnessComparisonGroups[g].temperatures) :
                 \E i \in Indexes :
                   /\ temperatures[i] = robustnessComparisonGroups[g].temperatures[k]
                   /\ ~IsInvalid(issued[i])
                   /\ NormalizedString(issued[i].schema) =
                        NormalizedString(robustnessComparisonGroups[g].representative.schema)

\* a test whose calls completed in another order than issued, with two groups
C9_Witness ==
  /\ Succeeded
  /\ ~lastRun.inOrder
  /\ Len(robustnessComparisonGroups) >= 2

(***************************************************************************)
(* Properties of the application, checked under Spec.                      *)
(***************************************************************************)
\* C10: at most one single generation and at most one robustness test are
\* outstanding at any time.
C10_OneRequestPerFeature == Len(generations) <= 1 /\ Len(tests) <= 1

\* the requirements text a call was issued with is blank
IsBlank(text) == Trim(text) = <<>>

\* C11: no call, the single generation or a call of a robustness test, is
\* outstanding with a requirements text that is empty or of white space only.
C11_NoBlankRequirementsSent ==
  /\ \A g \in 1..Len(generations) : ~IsBlank(generations[g].requirements)
  /\ \A t \in 1..Len(tests) : ~IsBlank(tests[t].requirements)

(***************************************************************************)
(* Properties of the robustness test as a whole.                           *)
(***************************************************************************)
\* the robustness results are the ones resetRobustnessState leaves
ResultsCleared ==
  /\ robustnessScore = NullScore
  /\ robustnessError = NullString
  /\ robustnessComparisonGroups = <<>>

\* C12: with no other handler run in between, from the start of a robustness
\* test until its runRobustnessTest call settles the test is shown as running
\* and score, error and groups are cleared, whatever the test before left.
C12_RunningHasNoResults ==
  Len(tests) > 0 => isTestingRobustness /\ ResultsCleared

\* a test with calls answered and calls pending
C12_Witness ==
  /\ Len(tests) = 1
  /\ tests[1].remaining = 2
  /\ isTestingRobustness
  /\ ResultsCleared

(***************************************************************************)
(* Properties of the single generation, checked under Spec.                *)
(***************************************************************************)
\* a step that issues the single generation / a step in which it settles
GenerationStarts == Len(generations') > Len(generations)
GenerationSettles == Len(generations') < Len(generations)

\* C13: the step in which handleGenerateSchema passes validation leaves error
\* null, no schema, no justification, no hovered element, no robustness result
\* and the modal closed; the step in which the call settles leaves isLoading
\* false with either schema and justification set and no error, or an error
\* set and no schema.
C13_GenerationClearsThenSettles ==
  [][ /\ GenerationStarts =>
           /\ error' = NullString
           /\ generatedSchema' = Null
           /\ justification' = ""
           /\ hoveredElement' = Null
           /\ ResultsCleared'
           /\ ~isRobustnessModalOpen'
      /\ GenerationSettles =>
           /\ ~isLoading'
           /\ \/ generatedSchema' # Null /\ justification' # "" /\ error' = NullString
              \/ error' # NullString /\ generatedSchema' = Null ]_vars

(***************************************************************************)
(* Properties of the two features side by side, checked under Spec.        *)
(***************************************************************************)
\* a step of a robustness test: its start, a call of it settling, its end
TestSteps == tests' # tests
TestFails == Len(tests') < Len(tests) /\ lastRun'.outcome = "failed"

\* C14: no step of a robustness test, from its start to its end, changes
\* error, generatedSchema, justification or isLoading, and the step in which a
\* test fails sets robustnessError.
C14_TestLeavesGenerationAlone ==
  [][ /\ TestSteps => UNCHANGED <<error, generatedSchema, justification, isLoading>>
      /\ TestFails => robustnessError' # NullString ]_vars

\* a test has failed while the generation feature shows an error of its own
C14_Witness ==
  /\ lastRun.outcome = "failed"
  /\ robustnessError # NullString
  /\ error # NullString
  /\ error # robustnessError

(***************************************************************************)
(* LiveSpec: the handlers that start a robustness test, end it, and        *)
(* replace the schema under it, with every generation call settling in the *)
(* end: the API answers or fails each request it was sent (part_001 58-75, *)
(* 90-107).                                                                *)
(***************************************************************************)
SettleCall ==
  \/ \E t \in 1..Len(tests), i \in 1..Len(temperatures) : CallReject(t, i)
  \/ \E t \in 1..Len(tests), i \in 1..Len(temperatures), text \in TestTexts :
       CallFulfil(t, i, text)

SettleGeneration ==
  \/ \E g \in 1..Len(generations) : GenerationReject(g)
  \/ \E g \in 1..Len(generations) : GenerationFulfil(g, TextOf(SchemaTags))

LiveNext ==
  \/ GenerateSchema
  \/ EditRequirements
  \/ RunRobustnessTest
  \/ SettleGeneration
  \/ SettleCall

LiveSpec == Init /\ [][LiveNext]_vars /\ WF_vars(SettleGeneration) /\ WF_vars(SettleCall)

\* a step in which the runRobustnessTest call of a test settles
TestEnds == Len(tests') < Len(tests)

EndedSucceeded == robustnessScore # NullScore /\ robustnessError = NullString
EndedFailed ==
  /\ robustnessError # NullString
  /\ robustnessScore = NullScore
  /\ robustnessComparisonGroups = <<>>

\* C15: a robustness test shown as running is in the end no longer shown as
\* running, and the step in which a test ends leaves it either succeeded
\* (a score, no error) or failed (an error, no score, no groups).
C15_RunningEndsInOneOutcome ==
  /\ isTestingRobustness ~> ~isTestingRobustness
  /\ [][TestEnds => ~isTestingRobustness' /\ (EndedSucceeded' \/ EndedFailed')]_vars

(***************************************************************************)
(* RequirementHighlighter (components/RequirementHighlighter.tsx 10-41).   *)
(* The text and the strings of the highlight list are sequences of         *)
(* one-character strings; a rendered part is its text and whether it is    *)
(* wrapped in the highlighting span.                                       *)
(***************************************************************************)
\* the characters of the texts: a letter in both cases, a second letter, and
\* a character that is special in a regular expression
Alphabet == {"a", "A", "b", "."}

\* String.prototype.toLowerCase, and the toUpperCase by which a regular
\* expression with the i flag compares characters
toLowerCase(s) == [k \in 1..Len(s) |-> IF s[k] = "A" THEN "a" ELSE s[k]]
Canonicalize(c) == IF c = "a" THEN "A" ELSE IF c = "b" THEN "B" ELSE c

\* escapeRegExp: string.replace(/[.*+?^${}()|[\]\\]/g, '\\$&')
SpecialChars == {".", "*", "+", "?", "^", "$", "{", "}", "(", ")", "|", "[", "]", "\\"}

RECURSIVE escapeRegExp(_)
escapeRegExp(string) ==
  IF string = <<>> THEN <<>>
  ELSE (IF Head(string) \in SpecialChars THEN <<"\\", Head(string)>> ELSE <<Head(string)>>)
       \o escapeRegExp(Tail(string))

\* new RegExp reads one alternative of the pattern: a character after a
\* backslash stands for itself, a dot for any character
RECURSIVE Atoms(_)
Atoms(source) ==
  IF source = <<>> THEN <<>>
  ELSE IF Head(source) = "\\"
       THEN <<[any |-> FALSE, char |-> source[2]]>> \o Atoms(Tail(Tail(source)))
  ELSE IF Head(source) = "."
       THEN <<[any |-> TRUE, char |-> "."]>> \o Atoms(Tail(source))
  ELSE <<[any |-> FALSE, char |-> Head(source)]>> \o Atoms(Tail(source))

\* highlights.filter((h): h is string => typeof h === 'string')
StringsOf(list) ==
  LET strings == SelectSeq(list, LAMBDA h : h.kind = "string")
  IN [k \in 1..Len(strings) |-> strings[k].chars]

\* [...new Set(list)]: the first of equal entries stays, in its place
RECURSIVE SetOf(_)
SetOf(list) ==
  IF list = <<>> THEN <<>>
  ELSE LET before == SetOf(SubSeq(list, 1, Len(list) - 1))
       IN IF \E k \in 1..Len(before) : before[k] = list[Len(list)]
          THEN before
          ELSE Append(before, list[Len(list)])

\* uniqueHighlights.sort((a, b) => b.length - a.length): a stable sort
RECURSIVE InsertByLength(_, _)
InsertByLength(sorted, h) ==
  IF sorted = <<>> THEN <<h>>
  ELSE IF Len(Head(sorted)) >= Len(h)
       THEN <<Head(sorted)>> \o InsertByLength(Tail(sorted), h)
       ELSE <<h>> \o sorted

RECURSIVE SortByLength(_)
SortByLength(list) ==
  IF list = <<>> THEN <<>>
  ELSE InsertByLength(SortByLength(SubSeq(list, 1, Len(list) - 1)), list[Len(list)])

uniqueHighlights(list) == SortByLength(SetOf(StringsOf(list)))

\* the alternatives of `(${uniqueHighlights.map(escapeRegExp).join('|')})`;
\* without highlights the group is empty and matches the empty string
Alternatives(unique) ==
  IF unique = <<>> THEN << <<>> >>
  ELSE [k \in 1..Len(unique) |-> Atoms(escapeRegExp(unique[k]))]

\* the alternative matches the text right after its first q characters
MatchesAt(string, atoms, q) ==
  /\ q + Len(atoms) <= Len(string)
  /\ \A k \in 1..Len(atoms) :
       \/ atoms[k].any
       \/ Canonicalize(atoms[k].char) = Canonicalize(string[q + k])

\* the length the regular expression matches after the first q characters,
\* that of the first alternative that matches; -1 without a match
MatchLength(string, alternatives, q) ==
  IF \E k \in 1..Len(alternatives) : MatchesAt(string, alternatives[k], q)
  THEN Len(alternatives[CHOOSE k \in 1..Len(alternatives) :
                          /\ MatchesAt(string, alternatives[k], q)
                          /\ \A j \in 1..(k - 1) : ~MatchesAt(string, alternatives[j], q)])
  ELSE -1

\* text.split(regex) with a capturing group: the pieces between the matches
\* and the matches themselves; a match that ends where the piece begins is
\* passed over
RECURSIVE SplitFrom(_, _, _, _, _)
SplitFrom(string, alternatives, p, q, pieces) ==
  IF q >= Len(string) THEN Append(pieces, SubSeq(string, p + 1, Len(string)))
  ELSE LET e == q + MatchLength(string, alternatives, q)
       IN IF e < q \/ e = p
          THEN SplitFrom(string, alternatives, p, q + 1, pieces)
          ELSE SplitFrom(string, alternatives, e, e,
                         pieces \o <<SubSeq(string, p + 1, q), SubSeq(string, q + 1, e)>>)

Split(string, alternatives) ==
  IF string = <<>>
  THEN IF MatchLength(string, alternatives, 0) >= 0 THEN <<>> ELSE << <<>> >>
  ELSE SplitFrom(string, alternatives, 0, 0, <<>>)

\* the component: what it renders for the props text and highlights
RequirementHighlighter(string, list) ==
  IF list = <<>> THEN <<[text |-> string, marked |-> FALSE]>>
  ELSE LET unique == uniqueHighlights(list)
           pieces == SelectSeq(Split(string, Alternatives(unique)), LAMBDA part : part # <<>>)
       IN [k \in 1..Len(pieces) |->
             [text |-> pieces[k],
              marked |-> \E h \in 1..Len(unique) :
                           toLowerCase(unique[h]) = toLowerCase(pieces[k])]]

(***************************************************************************)
(* HighlightSpec: RequirementHighlighter on its own.  The text grows by a  *)
(* character and the highlight list by an entry, and the component renders *)
(* again with each change of its props.                                    *)
(***************************************************************************)
\* the entries of a highlight list: strings, the empty one too, and a value
\* that is not a string
Phrases == UNION {[1..n -> Alphabet] : n \in 0..MaxPhrase}
HighlightValues == {StrVal(chars) : chars \in Phrases} \cup {NonString}

HighlightInit ==
  /\ AppInit
  /\ NormIdle
  /\ props = [text |-> <<>>, highlights |-> <<>>]
  /\ parts = RequirementHighlighter(<<>>, <<>>)

Render ==
  /\ parts' = RequirementHighlighter(props'.text, props'.highlights)
  /\ UNCHANGED <<appVars, normVars>>

TypeCharacter(c) ==
  /\ Len(props.text) < MaxText
  /\ props' = [props EXCEPT !.text = Append(@, c)]
  /\ Render

AddHighlight(h) ==
  /\ Len(props.highlights) < MaxHighlights
  /\ props' = [props EXCEPT !.highlights = Append(@, h)]
  /\ Render

HighlightNext ==
  \/ \E c \in Alphabet : TypeCharacter(c)
  \/ \E h \in HighlightValues : AddHighlight(h)

HighlightSpec == HighlightInit /\ [][HighlightNext]_vars

(***************************************************************************)
(* Properties of the highlighter, checked under HighlightSpec.             *)
(***************************************************************************)
RECURSIVE Concatenation(_)
Concatenation(rendered) ==
  IF rendered = <<>> THEN <<>> ELSE Head(rendered).text \o Concatenation(Tail(rendered))

\* the place in the text of the first character of a rendered part
StartOf(k) == 1 + Len(Concatenation(SubSeq(parts, 1, k - 1)))

MarkedParts == {k \in 1..Len(parts) : parts[k].marked}
MarkedPositions ==
  UNION {StartOf(k)..(StartOf(k) + Len(parts[k].text) - 1) : k \in MarkedParts}

\* the strings of the highlight list that have characters, and the places
\* in the text where one occurs, whatever the case
ListedPhrases ==
  {props.highlights[k].chars : k \in {j \in 1..Len(props.highlights) :
     props.highlights[j].kind = "string" /\ props.highlights[j].chars # <<>>}}

OccurrencesOf(h) ==
  {i \in 1..(Len(props.text) - Len(h) + 1) :
     toLowerCase(SubSeq(props.text, i, i + Len(h) - 1)) = toLowerCase(h)}

\* C16: the rendered parts put together are the text; every occurrence of
\* every listed string, whatever the case, lies in marked parts; every marked
\* part is a listed string, whatever the case; where a marked part starts no
\* longer listed string occurs; and a list with entries repeated renders as
\* the list without the repetitions does.
C16_MarksEveryOccurrence ==
  /\ Concatenation(parts) = props.text
  /\ \A h \in ListedPhrases : \A i \in OccurrencesOf(h) :
       i..(i + Len(h) - 1) \subseteq MarkedPositions
  /\ \A k \in MarkedParts :
       /\ \E h \in ListedPhrases : toLowerCase(h) = toLowerCase(parts[k].text)
       /\ \A h \in ListedPhrases : StartOf(k) \in OccurrencesOf(h) => Len(h) <= Len(parts[k].text)
  /\ props.highlights # <<>> =>
       parts = RequirementHighlighter(props.text, SetOf(props.highlights))

\* C17: while no schema is shown or a generation is loading there are no
\* robustness results: no score, no error, no groups.
C17_NoResultsWithoutSchema ==
  (generatedSchema = Null \/ isLoading) => ResultsCleared

\* C18: score and error are never both set; a score that is set is the one
\* the mapping gives for the count of the first stored group, 0 without
\* groups; with an error set no groups are stored.
C18_ExactlyOneOutcome ==
  /\ ~(robustnessScore # NullScore /\ robustnessError # NullString)
  /\ robustnessScore # NullScore =>
       robustnessScore = ScoreOf(IF robustnessComparisonGroups = <<>> THEN 0
                                 ELSE robustnessComparisonGroups[1].count)
  /\ robustnessError # NullString => robustnessComparisonGroups = <<>>

====
